---- MODULE Spec2Model ----
(***************************************************************************)
(* Model of nickel.rs src/router.rs: PathUtils (create_regex,              *)
(* get_variable_info) and Router (new, add_route, match_route).            *)
(*                                                                         *)
(* Strings are sequences of one-character strings.  The regular            *)
(* expressions of the source are kept as the character strings the source  *)
(* writes; Regex_new parses them and Search runs them with the leftmost-   *)
(* first, greedy semantics of the regex crate the source links against.    *)
(* The parser covers the syntax that the source's constants and the        *)
(* modelled alphabet can produce: ^ $ . ( ) [..] with ranges, and * after  *)
(* a one-character atom.                                                   *)
(***************************************************************************)
EXTENDS Integers, Sequences, FiniteSets, TLC

(* routes : Router.routes, the Vec<Route> in registration order            *)
(* status : "running", or "failed" once fail! has ended the task           *)
(* call   : the operation called last, with its arguments                  *)
(* result : what that operation returned                                   *)
(* branch : the match arm the operation took (Ok/Err of Regex::new; the    *)
(*          Some(captures)/None/no-route arms of match_route)              *)
VARIABLES routes, status, call, result, branch

vars == <<routes, status, call, result, branch>>

----------------------------------------------------------------------------
(* Bounds of the model *)

MaxTableSize == 4
MaxPathLen == 2
MaxRoutePathLen == 5
MaxTextLen == 3

(* The characters route paths and request paths are drawn from: characters
   of the class [a-zA-Z0-9_-], the path separator, the variable marker, and
   (for route paths) one character the regex syntax does not accept alone. *)
RouteChars == {"a", "/", ":", "("}
PathChars == {"a", "/"}
TestChars == {"a", "1", "/", ":"}
Handlers == {"h1", "h2"}

RECURSIVE Strings(_, _)
Strings(chars, n) ==
    IF n = 0 THEN {<<>>}
    ELSE LET shorter == Strings(chars, n - 1)
         IN  shorter \cup {Append(s, c) : s \in {t \in shorter : Len(t) = n - 1}, c \in chars}

----------------------------------------------------------------------------
(* The regex engine: code points, parsing, matching *)

(* Code points of the characters that occur in regexes and paths. *)
Ord ==
    [c \in {"\n", "$", "(", ")", "*", "-", ".", "/", "0", "1", "9", ":",
            "A", "Z", "[", "]", "^", "_", "a", "z"} |->
        CASE c = "\n" -> 10 [] c = "$" -> 36 [] c = "(" -> 40 [] c = ")" -> 41
          [] c = "*" -> 42 [] c = "-" -> 45 [] c = "." -> 46 [] c = "/" -> 47
          [] c = "0" -> 48 [] c = "1" -> 49 [] c = "9" -> 57 [] c = ":" -> 58
          [] c = "A" -> 65 [] c = "Z" -> 90 [] c = "[" -> 91 [] c = "]" -> 93
          [] c = "^" -> 94 [] c = "_" -> 95 [] c = "a" -> 97 [] c = "z" -> 122]

Instr(o, f, ch, rs, k) == [op |-> o, of |-> f, c |-> ch, set |-> rs, n |-> k]

(* The items of a character class body, as ranges of code points: x-y is a
   range, anything else a single character (a trailing - included). *)
RECURSIVE ClassItems(_, _, _)
ClassItems(str, i, j) ==
    IF i > j THEN <<>>
    ELSE IF i + 2 <= j /\ str[i + 1] = "-"
         THEN <<(<<Ord[str[i]], Ord[str[i + 2]]>>)>> \o ClassItems(str, i + 3, j)
         ELSE <<(<<Ord[str[i]], Ord[str[i]]>>)>> \o ClassItems(str, i + 1, j)

RECURSIVE ClassEnd(_, _)
ClassEnd(str, i) ==
    IF i > Len(str) THEN 0
    ELSE IF str[i] = "]" THEN i ELSE ClassEnd(str, i + 1)

ParseErr == [ok |-> FALSE, prog |-> <<>>, ngroups |-> 0]

(* Regex::new.  open is the stack of groups not yet closed.  Group g writes
   slots 2g+1 (start) and 2g+2 (end); slots 1 and 2 are the whole match. *)
RECURSIVE ParseFrom(_, _, _, _, _)
ParseFrom(str, i, prog, open, ngroups) ==
    IF i > Len(str)
    THEN IF open = <<>> THEN [ok |-> TRUE, prog |-> prog, ngroups |-> ngroups]
         ELSE ParseErr
    ELSE LET c == str[i] IN
      CASE c = "(" ->
             ParseFrom(str, i + 1,
                       Append(prog, Instr("save", "", "", <<>>, 2 * (ngroups + 1) + 1)),
                       <<ngroups + 1>> \o open, ngroups + 1)
        [] c = ")" ->
             IF open = <<>> THEN ParseErr
             ELSE ParseFrom(str, i + 1,
                            Append(prog, Instr("save", "", "", <<>>, 2 * Head(open) + 2)),
                            Tail(open), ngroups)
        [] c = "[" ->
             LET j == ClassEnd(str, i + 1) IN
             IF j = 0 THEN ParseErr
             ELSE ParseFrom(str, j + 1,
                            Append(prog, Instr("class", "", "", ClassItems(str, i + 1, j - 1), 0)),
                            open, ngroups)
        [] c = "*" ->
             IF prog = <<>> \/ prog[Len(prog)].op \notin {"char", "any", "class"}
             THEN ParseErr
             ELSE LET a == prog[Len(prog)] IN
                  ParseFrom(str, i + 1,
                            Append(SubSeq(prog, 1, Len(prog) - 1),
                                   Instr("star", a.op, a.c, a.set, 0)),
                            open, ngroups)
        [] c = "." -> ParseFrom(str, i + 1, Append(prog, Instr("any", "", "", <<>>, 0)), open, ngroups)
        [] c = "^" -> ParseFrom(str, i + 1, Append(prog, Instr("bol", "", "", <<>>, 0)), open, ngroups)
        [] c = "$" -> ParseFrom(str, i + 1, Append(prog, Instr("eol", "", "", <<>>, 0)), open, ngroups)
        [] OTHER   -> ParseFrom(str, i + 1, Append(prog, Instr("char", "", c, <<>>, 0)), open, ngroups)

Regex_new(str) == ParseFrom(str, 1, <<>>, <<>>, 0)

(* Does the one-character atom of kind k (of instruction in) accept ch? *)
AtomMatches(k, in, ch) ==
    CASE k = "char"  -> ch = in.c
      [] k = "any"   -> ch # "\n"
      [] k = "class" -> \E r \in 1..Len(in.set) :
                            in.set[r][1] <= Ord[ch] /\ Ord[ch] <= in.set[r][2]
      [] OTHER       -> FALSE

RECURSIVE MaxRun(_, _, _)
MaxRun(in, s, pos) ==
    IF pos <= Len(s) /\ AtomMatches(in.of, in, s[pos]) THEN 1 + MaxRun(in, s, pos + 1) ELSE 0

NoMatch == [ok |-> FALSE, slots |-> <<>>]

(* Backtracking run of prog from instruction pc at position pos: the first
   match in priority order, a star trying its longest run first. *)
RECURSIVE Run(_, _, _, _, _), RunStar(_, _, _, _, _, _)
Run(prog, pc, s, pos, slots) ==
    IF pc > Len(prog) THEN [ok |-> TRUE, slots |-> [slots EXCEPT ![2] = pos]]
    ELSE LET in == prog[pc] IN
      CASE in.op = "bol"  -> IF pos = 1 THEN Run(prog, pc + 1, s, pos, slots) ELSE NoMatch
        [] in.op = "eol"  -> IF pos = Len(s) + 1 THEN Run(prog, pc + 1, s, pos, slots) ELSE NoMatch
        [] in.op = "save" -> Run(prog, pc + 1, s, pos, [slots EXCEPT ![in.n] = pos])
        [] in.op = "star" -> RunStar(prog, pc, s, pos, slots, MaxRun(in, s, pos))
        [] OTHER          -> IF pos <= Len(s) /\ AtomMatches(in.op, in, s[pos])
                             THEN Run(prog, pc + 1, s, pos + 1, slots)
                             ELSE NoMatch
RunStar(prog, pc, s, pos, slots, k) ==
    LET r == Run(prog, pc + 1, s, pos + k, slots) IN
    IF r.ok THEN r
    ELSE IF k = 0 THEN NoMatch ELSE RunStar(prog, pc, s, pos, slots, k - 1)

(* The leftmost match of re in s starting at or after position from. *)
RECURSIVE Search(_, _, _)
Search(re, s, from) ==
    IF from > Len(s) + 1 THEN NoMatch
    ELSE LET r == Run(re.prog, 1, s, from,
                      [k \in 1..(2 * (re.ngroups + 1)) |-> IF k = 1 THEN from ELSE 0])
         IN  IF r.ok THEN r ELSE Search(re, s, from + 1)

is_match(re, s) == Search(re, s, 1).ok

None == [some |-> FALSE, text |-> <<>>, slots |-> <<>>]

(* Variant: no Captures for a regex without capture groups. *)
captures_groups_only(re, s) ==
    LET r == Search(re, s, 1) IN
    IF r.ok /\ re.ngroups > 0 THEN [some |-> TRUE, text |-> s, slots |-> r.slots] ELSE None

captures(re, s) ==
    LET r == Search(re, s, 1) IN
    IF r.ok THEN [some |-> TRUE, text |-> s, slots |-> r.slots] ELSE None

(* Captures::at: the text of group i, the empty string when there is none. *)
at(caps, i) ==
    IF 2 * i + 2 <= Len(caps.slots) /\ caps.slots[2 * i + 1] > 0 /\ caps.slots[2 * i + 2] > 0
    THEN SubSeq(caps.text, caps.slots[2 * i + 1], caps.slots[2 * i + 2] - 1)
    ELSE <<>>

(* Regex::captures_iter: the captures of the successive non-overlapping matches. *)
RECURSIVE captures_iter(_, _, _)
captures_iter(re, s, from) ==
    LET r == Search(re, s, from) IN
    IF ~r.ok THEN <<>>
    ELSE <<[some |-> TRUE, text |-> s, slots |-> r.slots]>>
         \o (IF r.slots[2] > r.slots[1] THEN captures_iter(re, s, r.slots[2])
             ELSE captures_iter(re, s, r.slots[2] + 1))

(* Regex::replace_all with a replacement that holds no $ reference. *)
RECURSIVE replace_all(_, _, _, _)
replace_all(re, s, rep, from) ==
    LET r == Search(re, s, from) IN
    IF ~r.ok THEN SubSeq(s, from, Len(s))
    ELSE SubSeq(s, from, r.slots[1] - 1) \o rep
         \o (IF r.slots[2] > r.slots[1] THEN replace_all(re, s, rep, r.slots[2])
             ELSE SubSeq(s, r.slots[2], r.slots[2]) \o replace_all(re, s, rep, r.slots[2] + 1))

----------------------------------------------------------------------------
(* PathUtils *)

REGEX_VAR_SEQ ==
    Regex_new(<<":", "(", "[", "a", "-", "z", "A", "-", "Z", "0", "-", "9", "_", "-", "]", "*", ")">>)
VARIABLE_SEQUENCE ==
    <<"(", ".", "[", "a", "-", "z", "A", "-", "Z", "0", "-", "9", "_", "-", "]", "*", ")">>
REGEX_START == <<"^">>
REGEX_END == <<"$">>

(* The string create_regex hands to Regex::new. *)
regex_source(route_path) ==
    REGEX_START \o replace_all(REGEX_VAR_SEQ, route_path, VARIABLE_SEQUENCE, 1) \o REGEX_END

(* create_regex: the Ok(re) / Err(err) of Regex::new; the caller of this
   operator decides on Err (the source fails the task). *)
create_regex(route_path) == Regex_new(regex_source(route_path))

insert(map, k, v) == [x \in (DOMAIN map) \cup {k} |-> IF x = k THEN v ELSE map[x]]

(* collect() into a HashMap: pairs inserted in iteration order, a later
   insert of a key replacing the earlier one. *)
RECURSIVE collect(_, _, _)
collect(matches, i, map) ==
    IF i > Len(matches) THEN map
    ELSE collect(matches, i + 1, insert(map, at(matches[i], 1), i - 1))

get_variable_info(route_path) ==
    collect(captures_iter(REGEX_VAR_SEQ, route_path, 1), 1, <<>>)

----------------------------------------------------------------------------
(* Router *)

Route(path, handler) ==
    [path |-> path, handler |-> handler,
     variables |-> get_variable_info(path), matcher |-> create_regex(path)]

(* Variant: the last accepting route instead of the first. *)
RECURSIVE find_last(_, _, _)
find_last(rs, path, i) ==
    IF i > Len(rs) THEN 0
    ELSE LET later == find_last(rs, path, i + 1) IN
         IF later # 0 THEN later
         ELSE IF is_match(rs[i].matcher, path) THEN i ELSE 0

(* Variant: the scan stops one route early. *)
RECURSIVE find_skip_last(_, _, _)
find_skip_last(rs, path, i) ==
    IF i >= Len(rs) THEN 0
    ELSE IF is_match(rs[i].matcher, path) THEN i ELSE find_skip_last(rs, path, i + 1)

(* iter().find(): the index of the first route whose matcher accepts path, 0 for None. *)
RECURSIVE find(_, _, _)
find(rs, path, i) ==
    IF i > Len(rs) THEN 0
    ELSE IF is_match(rs[i].matcher, path) THEN i ELSE find(rs, path, i + 1)

(* Variant: the capture index taken without the +1 that skips group 0. *)
match_result_group0(rs, path) ==
    LET r == find(rs, path, 1) IN
    IF r = 0 THEN [kind |-> "None", route |-> 0, params |-> <<>>, arm |-> "no_route"]
    ELSE LET caps == captures(rs[r].matcher, path) IN
         IF caps.some
         THEN [kind |-> "Some", route |-> r,
               params |-> [name \in DOMAIN rs[r].variables |->
                              at(caps, rs[r].variables[name])],
               arm |-> "captures"]
         ELSE [kind |-> "Some", route |-> r, params |-> <<>>, arm |-> "no_captures"]

(* The value match_route returns, with the match arm that produced it. *)
match_result(rs, path) ==
    LET r == find(rs, path, 1) IN
    IF r = 0 THEN [kind |-> "None", route |-> 0, params |-> <<>>, arm |-> "no_route"]
    ELSE LET caps == captures(rs[r].matcher, path) IN
         IF caps.some
         THEN [kind |-> "Some", route |-> r,
               params |-> [name \in DOMAIN rs[r].variables |->
                              at(caps, rs[r].variables[name] + 1)],
               arm |-> "captures"]
         ELSE [kind |-> "Some", route |-> r, params |-> <<>>, arm |-> "no_captures"]

(* The operation last called, with its arguments, and what it returned. *)
Call(name, route_path, handler, path) ==
    [name |-> name, route_path |-> route_path, handler |-> handler, path |-> path]
Returned(kind, route, params) == [kind |-> kind, route |-> route, params |-> params]

new ==
    /\ routes = <<>>
    /\ status = "running"
    /\ call = Call("new", <<>>, "", <<>>)
    /\ result = Returned("Router", 0, <<>>)
    /\ branch = ""

(* Variant: the new route is put in front of the table. *)
add_route_front(path, handler) ==
    /\ status = "running"
    /\ call' = Call("add_route", path, handler, <<>>)
    /\ IF create_regex(path).ok
       THEN /\ routes' = <<Route(path, handler)>> \o routes
            /\ status' = "running"
            /\ result' = Returned("Unit", 0, <<>>)
            /\ branch' = "Ok"
       ELSE /\ routes' = routes
            /\ status' = "failed"
            /\ result' = Returned("Fail", 0, <<>>)
            /\ branch' = "Err"

add_route(path, handler) ==
    /\ status = "running"
    /\ call' = Call("add_route", path, handler, <<>>)
    /\ IF create_regex(path).ok
       THEN /\ routes' = Append(routes, Route(path, handler))
            /\ status' = "running"
            /\ result' = Returned("Unit", 0, <<>>)
            /\ branch' = "Ok"
       ELSE /\ routes' = routes
            /\ status' = "failed"
            /\ result' = Returned("Fail", 0, <<>>)
            /\ branch' = "Err"

(* Variant: a lookup moves the matched route to the front of the table. *)
match_route_promote(path) ==
    /\ status = "running"
    /\ call' = Call("match_route", <<>>, "", path)
    /\ LET m == match_result(routes, path) IN
         /\ result' = Returned(m.kind, m.route, m.params)
         /\ branch' = m.arm
         /\ routes' = IF m.route = 0 THEN routes
                      ELSE <<routes[m.route]>> \o SubSeq(routes, 1, m.route - 1)
                           \o SubSeq(routes, m.route + 1, Len(routes))
    /\ UNCHANGED status

match_route(path) ==
    /\ status = "running"
    /\ call' = Call("match_route", <<>>, "", path)
    /\ LET m == match_result(routes, path) IN
         /\ result' = Returned(m.kind, m.route, m.params)
         /\ branch' = m.arm
    /\ UNCHANGED <<routes, status>>

(* Bound on the table: the characters of the registered paths plus one per route. *)
RECURSIVE TableSize(_)
TableSize(rs) == IF rs = <<>> THEN 0 ELSE Len(Head(rs).path) + 1 + TableSize(Tail(rs))

(* The route paths that fit into a table with room for n more characters. *)
RoutePaths == [n \in 0..(MaxTableSize - 1) |-> Strings(RouteChars, n)]
Paths == Strings(PathChars, MaxPathLen)

Init == new

Next ==
    \/ /\ TableSize(routes) < MaxTableSize
       /\ \E path \in RoutePaths[MaxTableSize - TableSize(routes) - 1], handler \in Handlers :
            add_route(path, handler)
    \/ \E path \in Paths : match_route(path)

Spec == Init /\ [][Next]_vars

----------------------------------------------------------------------------
(* PathUtils and a one-route Router applied to drawn inputs, as the unit
   tests of the source apply them. *)

TestRoutePaths == Strings(TestChars, MaxRoutePathLen)
Texts == Strings(TestChars, MaxTextLen)

(* All capture groups of caps, in group order. *)
groups(re, caps) == [g \in 1..re.ngroups |-> at(caps, g)]

call_get_variable_info ==
    /\ call.name = "test"
    /\ call' = Call("get_variable_info", call.route_path, "", <<>>)
    /\ result' = Returned("Map", 0, get_variable_info(call.route_path))
    /\ UNCHANGED <<routes, status, branch>>

call_create_regex ==
    /\ call.name = "test"
    /\ call' = Call("create_regex", call.route_path, "", <<>>)
    /\ LET re == create_regex(call.route_path) IN
         IF re.ok
         THEN /\ result' = Returned("Regex", 0, re)
              /\ branch' = "Ok"
              /\ status' = "running"
         ELSE /\ result' = Returned("Fail", 0, <<>>)
              /\ branch' = "Err"
              /\ status' = "failed"
    /\ UNCHANGED routes

(* regex.is_match(text) and regex.captures(text) on the regex create_regex returned. *)
call_captures(text) ==
    /\ call.name = "create_regex"
    /\ status = "running"
    /\ call' = Call("captures", call.route_path, "", text)
    /\ LET re == result.params
           caps == captures(re, text)
       IN  /\ result' = Returned(IF is_match(re, text) THEN "Match" ELSE "NoMatch", 0,
                                 groups(re, caps))
           /\ branch' = IF caps.some THEN "captures" ELSE "no_captures"
    /\ UNCHANGED <<routes, status>>

InitTest ==
    /\ routes = <<>>
    /\ status = "running"
    /\ call \in {Call("test", p, "", <<>>) : p \in TestRoutePaths}
    /\ result = Returned("Router", 0, <<>>)
    /\ branch = ""

NextTest ==
    \/ call_get_variable_info
    \/ call_create_regex
    \/ \E text \in Texts : call_captures(text)
    \/ \E handler \in {"h1"} : call.name = "test" /\ add_route(call.route_path, handler)
    \/ \E path \in Texts : call.name = "add_route" /\ match_route(path)

SpecTest == InitTest /\ [][NextTest]_vars

----------------------------------------------------------------------------
(* Vocabulary of the properties: the pattern language as the specification
   words it, written without the regex engine. *)

NameChars == {"a", "1"}

RECURSIVE NameEnd(_, _)
NameEnd(p, i) == IF i <= Len(p) /\ p[i] \in NameChars THEN NameEnd(p, i + 1) ELSE i

(* A pattern as literal characters and :name tokens, a token being ':' and
   one or more name characters. *)
RECURSIVE Items(_, _)
Items(p, i) ==
    IF i > Len(p) THEN <<>>
    ELSE IF p[i] = ":" /\ NameEnd(p, i + 1) > i + 1
         THEN <<[var |-> TRUE, text |-> SubSeq(p, i + 1, NameEnd(p, i + 1) - 1)]>>
              \o Items(p, NameEnd(p, i + 1))
         ELSE <<[var |-> FALSE, text |-> <<p[i]>>]>> \o Items(p, i + 1)

IsVar(item) == item.var
TokenNames(p) == [k \in 1..Len(SelectSeq(Items(p, 1), IsVar)) |->
                     SelectSeq(Items(p, 1), IsVar)[k].text]

(* The value sequences whose substitution for the tokens of items[k..]
   yields text[j..]; each value a non-empty run of name characters. *)
RECURSIVE Values(_, _, _, _)
Values(items, k, text, j) ==
    IF k > Len(items) THEN (IF j = Len(text) + 1 THEN {<<>>} ELSE {})
    ELSE IF ~items[k].var
         THEN (IF j <= Len(text) /\ text[j] = items[k].text[1]
               THEN Values(items, k + 1, text, j + 1) ELSE {})
         ELSE UNION {{<<SubSeq(text, j, e)>> \o vs : vs \in Values(items, k + 1, text, e + 1)} :
                        e \in {e \in j..Len(text) : \A x \in j..e : text[x] \in NameChars}}

IsInstance(items, text) == Values(items, 1, text, 1) # {}

Accepting(path) == {i \in 1..Len(routes) : is_match(routes[i].matcher, path)}

----------------------------------------------------------------------------
(* Properties of the Router, under Spec *)

(* C1: match_route returns the route with the smallest registration index
   among the registered routes whose matcher accepts the path; a route
   registered later is never returned when an earlier one accepts too. *)
C1_FirstRegisteredWins ==
    (call.name = "match_route" /\ Accepting(call.path) # {})
        => /\ result.route \in Accepting(call.path)
           /\ \A i \in Accepting(call.path) : result.route <= i

C1_Witness ==
    /\ call.name = "match_route"
    /\ result.kind = "Some" /\ result.route = 1
    /\ 2 \in Accepting(call.path)
    /\ routes[1].path # routes[2].path

(* C6: add_route with a pattern whose translated matcher is invalid returns
   a CompileError value, keeps the process running and leaves the table as
   it was. *)
C6_CompileErrorReturned ==
    [][(call'.name = "add_route" /\ ~create_regex(call'.route_path).ok)
          => /\ status' = "running"
             /\ result'.kind = "CompileError"
             /\ routes' = routes]_vars

(* C7: match_route never fails: it completes, returning a match exactly when
   some registered route's matcher accepts the path and None otherwise; on
   an empty table it returns None. *)
C7_MatchRouteTotal ==
    call.name = "match_route"
        => /\ status = "running"
           /\ result.kind \in {"Some", "None"}
           /\ (result.kind = "Some") <=> (Accepting(call.path) # {})
           /\ (routes = <<>> => result.kind = "None")

C7_Witness ==
    /\ call.name = "match_route"
    /\ result.kind = "None"
    /\ Len(routes) >= 2
    /\ call.path # <<>>

(* C8: a successful add_route appends exactly one route, built from its
   arguments, at the end of the table and leaves every route registered
   before as it was; duplicates are kept. *)
C8_AddRouteAppends ==
    [][(call'.name = "add_route" /\ branch' = "Ok")
          => /\ Len(routes') = Len(routes) + 1
             /\ \A i \in 1..Len(routes) : routes'[i] = routes[i]
             /\ routes'[Len(routes')].path = call'.route_path
             /\ routes'[Len(routes')].handler = call'.handler
             /\ routes'[Len(routes')].variables = get_variable_info(call'.route_path)]_vars

C8_Witness ==
    /\ call.name = "add_route" /\ branch = "Ok"
    /\ Len(routes) >= 2
    /\ routes[1].path = routes[2].path
    /\ routes[1].handler # routes[2].handler

(* C9: match_route is a pure read: it leaves the route table as it was, and
   a lookup that repeats the path of the lookup before it returns the same
   result. *)
C9_MatchRoutePureRead ==
    [][call'.name = "match_route"
          => /\ routes' = routes
             /\ status' = status
             /\ (call.name = "match_route" /\ call.path = call'.path => result' = result)]_vars

C9_Witness ==
    /\ call.name = "match_route"
    /\ result.kind = "Some" /\ result.route = 2
    /\ DOMAIN result.params # {}

(* C10: whenever match_route returns a result, the keys of params are the
   keys of the matched route's variable index, the arm that builds params
   from the captures is the one taken, and params is empty only when the
   matched pattern has no variable token. *)
C10_ParamsKeysAreVariables ==
    (call.name = "match_route" /\ result.kind = "Some")
        => /\ DOMAIN result.params = DOMAIN routes[result.route].variables
           /\ branch = "captures"
           /\ (DOMAIN result.params = {} => TokenNames(routes[result.route].path) = <<>>)

C10_Witness ==
    /\ call.name = "match_route" /\ result.kind = "Some"
    /\ DOMAIN result.params = {}
    /\ branch = "captures"

----------------------------------------------------------------------------
(* Properties of PathUtils and of a one-route Router, under SpecTest *)

(* Every param holds the value substituted for its token, for each way of
   reading the path as the pattern with values substituted. *)
RoundTrip(p, path, params) ==
    \A vs \in Values(Items(p, 1), 1, path, 1) :
        \A k \in 1..Len(vs) :
            /\ TokenNames(p)[k] \in DOMAIN params
            /\ params[TokenNames(p)[k]] = vs[k]

(* Every ':' of the pattern begins a :name token. *)
AllColonsNamed(p) == \A k \in 1..Len(Items(p, 1)) : Items(p, 1)[k].text # <<":">>

(* C2 as stated, on the patterns whose every ':' begins a :name token: for
   every path built from the registered pattern by replacing each :name
   token with a non-empty run of name characters, match_route returns params
   that map each name to the run substituted for that token. *)
C2_RoundTripAllPatterns ==
    (call.name = "match_route" /\ result.kind = "Some"
       /\ AllColonsNamed(routes[result.route].path))
        => RoundTrip(routes[result.route].path, call.path, result.params)

(* Each token follows the start of the pattern or a literal character other
   than ':'. *)
SeparateTokens(p) ==
    \A k \in 2..Len(Items(p, 1)) :
        Items(p, 1)[k].var
            => (~Items(p, 1)[k - 1].var /\ Items(p, 1)[k - 1].text # <<":">>)

IsLastOfName(names, k) == \A later \in (k + 1)..Len(names) : names[later] # names[k]

(* C2 (amended): for the patterns whose tokens each follow the start of the
   pattern or a literal character other than ':', params maps each name to
   the run substituted for the last token of that name. *)
C2_RoundTripSeparateTokens ==
    (call.name = "match_route" /\ result.kind = "Some"
       /\ SeparateTokens(routes[result.route].path))
        => \A vs \in Values(Items(routes[result.route].path, 1), 1, call.path, 1) :
              \A k \in 1..Len(vs) :
                  IsLastOfName(TokenNames(routes[result.route].path), k)
                      => /\ TokenNames(routes[result.route].path)[k] \in DOMAIN result.params
                         /\ result.params[TokenNames(routes[result.route].path)[k]] = vs[k]

C2_Witness ==
    /\ call.name = "match_route" /\ result.kind = "Some"
    /\ SeparateTokens(routes[1].path)
    /\ Len(TokenNames(routes[1].path)) = 2
    /\ Values(Items(routes[1].path, 1), 1, call.path, 1) # {}
    /\ \E n, m \in DOMAIN result.params : result.params[n] # result.params[m]

(* C3: every captured variable value of an accepted path is a non-empty run
   of name characters: no '/' and no other character outside the class. *)
C3_CapturesAreNameRuns ==
    (call.name = "captures" /\ result.kind = "Match")
        => \A g \in 1..Len(result.params) :
              /\ result.params[g] # <<>>
              /\ \A x \in 1..Len(result.params[g]) : result.params[g][x] \in NameChars

(* The text is an instance of the pattern followed by further segments. *)
ExtraTrailingSegments(items, text) ==
    \E k \in 0..(Len(text) - 1) :
        text[k + 1] = "/" /\ IsInstance(items, SubSeq(text, 1, k))

Without(items, from, to) == SubSeq(items, 1, from - 1) \o SubSeq(items, to + 1, Len(items))
IsSlash(item) == ~item.var /\ item.text = <<"/">>

(* The text is the pattern instantiated with one variable segment left out:
   the value of a token that fills a whole segment, with or without the
   separator in front of it. *)
MissingVariableSegment(items, text) ==
    \E m \in 1..Len(items) :
        /\ items[m].var
        /\ m = 1 \/ IsSlash(items[m - 1])
        /\ m = Len(items) \/ IsSlash(items[m + 1])
        /\ \/ IsInstance(Without(items, m, m), text)
           \/ m > 1 /\ IsInstance(Without(items, m - 1, m), text)

C4_InstancesMatch ==
    (call.name = "captures" /\ IsInstance(Items(call.route_path, 1), call.path))
        => result.kind = "Match"
C4_ExtraSegmentsRejected ==
    (call.name = "captures" /\ ExtraTrailingSegments(Items(call.route_path, 1), call.path))
        => result.kind = "NoMatch"
C4_MissingSegmentRejected ==
    (call.name = "captures" /\ MissingVariableSegment(Items(call.route_path, 1), call.path))
        => result.kind = "NoMatch"

(* C4: full-pattern anchoring: a path that differs from the pattern only in
   its variable segments matches; a path with extra trailing segments, or
   with a variable segment missing, does not. *)
C4_FullPatternAnchoring ==
    /\ C4_InstancesMatch
    /\ C4_ExtraSegmentsRejected
    /\ C4_MissingSegmentRejected

(* One entry per distinct token name, holding the zero-based ordinal of the
   last token of that name. *)
LastOrdinals(names) ==
    [n \in {names[k] : k \in 1..Len(names)} |->
        (CHOOSE k \in 1..Len(names) :
            names[k] = n /\ \A later \in (k + 1)..Len(names) : names[later] # n) - 1]

(* C5: get_variable_info returns one entry per distinct token name, a token
   being ':' and one or more name characters, each entry holding the
   zero-based ordinal of the last token of that name among all tokens. *)
C5_VariableInfoOfTokens ==
    call.name = "get_variable_info"
        => result.params = LastOrdinals(TokenNames(call.route_path))

====
